---- MODULE Spec2Model ----
(***************************************************************************)
(* Rotating-shift calendar viewer (src/viewer.py).                         *)
(*                                                                         *)
(* One run of the script is modelled: the selected CSV file is loaded      *)
(* into a table (load_and_prepare_data), the table is flattened            *)
(* (flatten_shift_data), the anchor index is built from the sidebar        *)
(* inputs, and create_calendar_html walks the month grid calling           *)
(* get_daily_kinmu for every day of the displayed month.                   *)
(*                                                                         *)
(* Encoding.  Strings that the code inspects character by character (duty  *)
(* codes) are sequences of one-character tokens; the tokens are romanised: *)
(*   "KOU" = 公, "KYUU" = 休, "HAKU" = 泊, "AKE" = 明, "NICHI" = 日,       *)
(*   "YA" = 夜, "KIN" = 勤.                                                *)
(* Group labels are romanised too: I RO HA NI HO HE TO stand for           *)
(* イ ロ ハ ニ ホ ヘ ト.  Dates are day numbers, day 1 = 2025-01-01; the   *)
(* difference of two dates is the difference of their day numbers.         *)
(***************************************************************************)
EXTENDS Integers, Sequences, FiniteSets, TLC

\* ------------------------------------------------------------------ bounds
\* Largest number of rows of an input CSV file.
MaxRows == 2

\* ------------------------------------------------------- program constants
group_list == <<"I", "RO", "HA", "NI", "HO", "HE", "TO">>

\* The eight column names assigned to the frame: the index column and the
\* seven group columns.
columns == <<"WEEK">> \o group_list

\* ------------------------------------------------------------------ inputs
\* Week-number labels an input row may carry (sparse on purpose).
WeekLabels == {1, 3, 4}

\* Values of the "week number of the reference date" input; 2 is in no table.
RefWeekInputs == 1..4

\* Values of the reference date input (2025-01-30).
RefDateInputs == {30}

\* The months that can be displayed: January and February 2025.
Months == {[month |-> 1, first |-> 1, last |-> 31],
           [month |-> 2, first |-> 32, last |-> 59]}

\* A missing cell, as pandas pads a short row (float NaN).
NaN == <<"NaN">>

\* Field lists (the duty-code fields after the week field) of input rows:
\* two rows of seven fields, one of two fields, one of eight.
RowA == << <<"KOU">>, <<"HAKU">>, <<"AKE">>, <<"NICHI">>,
           <<"HAKU", "AKE">>, <<"KYUU">>, <<"NICHI", "KIN">> >>
RowB == << <<"AKE", "HAKU">>, <<"KOU", "KYUU">>, <<"YA">>, <<"KYUU">>,
           <<"YA", "AKE">>, <<"HAKU", "KIN">>, <<"KOU">> >>
RowShort == << <<"YA">>, <<"KOU">> >>
RowLong == RowB \o << <<"KIN">> >>
FieldLists == {RowA, RowB, RowShort, RowLong}

InputRows == [week : WeekLabels, cells : FieldLists]

\* Input files: up to MaxRows rows in any order, week numbers unique.
CsvInputs ==
  UNION {{s \in [1..n -> InputRows] :
            \A i, j \in 1..n : i # j => s[i].week # s[j].week} : n \in 0..MaxRows}

\* ------------------------------------------------------------------- state
VARIABLES
  pc,               \* position of the script run
  file_exists,      \* the selected file can still be opened
  csv_data,         \* rows of the selected file
  ref_date_input, ref_week_input, ref_group_input,   \* sidebar inputs
  target_month,     \* displayed month
  shift_df,         \* result of load_and_prepare_data
  flat_shift_list,  \* result of flatten_shift_data
  ref_shift_index,  \* anchor index, -1 while not built
  error,            \* error reported by the run, "none" if none
  cell_date,        \* next grid date create_calendar_html will visit
  day,              \* last day of the month that was resolved (a record)
  color             \* colour chosen for that day

vars == <<pc, file_exists, csv_data, ref_date_input, ref_week_input,
          ref_group_input, target_month, shift_df, flat_shift_list,
          ref_shift_index, error, cell_date, day, color>>

\* ------------------------------------------------------- list primitives
\* min of a non-empty set of integers
SetMin(S) == CHOOSE x \in S : \A y \in S : x <= y

\* sorted(list) for a list of integers
RECURSIVE sorted(_)
sorted(list) ==
  IF list = <<>> THEN <<>>
  ELSE LET m == SetMin({list[i] : i \in 1..Len(list)})
           k == SetMin({i \in 1..Len(list) : list[i] = m})
           rest == [i \in 1..(Len(list) - 1) |->
                      IF i < k THEN list[i] ELSE list[i + 1]]
       IN <<m>> \o sorted(rest)

\* list.index(x): 0-based position of the first x, -1 for ValueError
ListIndex(list, x) ==
  IF \E i \in 1..Len(list) : list[i] = x
  THEN SetMin({i \in 1..Len(list) : list[i] = x}) - 1
  ELSE -1

\* list[i] with Python's indexing: negative i counts from the end; the
\* subscript is valid for -len <= i < len and raises IndexError otherwise.
IndexValid(list, i) == -Len(list) <= i /\ i < Len(list)
PyGet(list, i) == IF i >= 0 THEN list[i + 1] ELSE list[Len(list) + i + 1]

\* ------------------------------------------------------------ the table
\* A frame is a record: isNone (the Python value None) and the rows, each a
\* record of the index value (week) and the seven group cells.
NoneFrame == [isNone |-> TRUE, rows |-> <<>>]

\* pd.read_csv(..., header=None): no rows raises EmptyDataError; the number
\* of columns is that of the first row; a longer row raises ParserError; a
\* shorter row is padded with NaN.
RowWidth(row) == 1 + Len(row.cells)
PadRow(row, width) ==
  [week |-> row.week,
   cells |-> [k \in 1..(width - 1) |->
                IF k <= Len(row.cells) THEN row.cells[k] ELSE NaN]]
read_csv(rows) ==
  IF rows = <<>> THEN [raised |-> "EmptyDataError", rows |-> <<>>]
  ELSE LET width == RowWidth(rows[1])
       IN IF \E i \in 1..Len(rows) : RowWidth(rows[i]) > width
          THEN [raised |-> "ParserError", rows |-> <<>>]
          ELSE [raised |-> "none",
                rows |-> [i \in 1..Len(rows) |-> PadRow(rows[i], width)]]

\* df.index: the week labels in row order
FrameIndex(df) == [i \in 1..Len(df.rows) |-> df.rows[i].week]

\* df.sort_index(): the rows in ascending order of their index value
sort_index(rows) ==
  LET idx == sorted([i \in 1..Len(rows) |-> rows[i].week])
  IN [i \in 1..Len(rows) |->
        rows[CHOOSE j \in 1..Len(rows) : rows[j].week = idx[i]]]

\* Faulty variant of load_and_prepare_data: a file without rows is answered
\* with None and no message, as a file that cannot be parsed "quietly".
load_and_prepare_data_Silent(exists, rows) ==
  IF ~exists
  THEN [df |-> NoneFrame, reported |-> "FileNotFound", raised |-> "none"]
  ELSE LET parsed == read_csv(rows)
       IN IF parsed.raised = "EmptyDataError"
          THEN [df |-> NoneFrame, reported |-> "none", raised |-> "none"]
          ELSE IF parsed.raised # "none"
          THEN [df |-> NoneFrame, reported |-> "none", raised |-> parsed.raised]
          ELSE IF RowWidth(parsed.rows[1]) # Len(columns)
          THEN [df |-> NoneFrame, reported |-> "none", raised |-> "ValueError"]
          ELSE [df |-> [isNone |-> FALSE, rows |-> sort_index(parsed.rows)],
                reported |-> "none", raised |-> "none"]

\* load_and_prepare_data: the frame, the error shown with st.error
\* (reported) and the exception that leaves the function (raised).
load_and_prepare_data(exists, rows) ==
  IF ~exists
  THEN [df |-> NoneFrame, reported |-> "FileNotFound", raised |-> "none"]
  ELSE LET parsed == read_csv(rows)
       IN IF parsed.raised # "none"
          THEN [df |-> NoneFrame, reported |-> "none", raised |-> parsed.raised]
          ELSE IF RowWidth(parsed.rows[1]) # Len(columns)
          THEN [df |-> NoneFrame, reported |-> "none", raised |-> "ValueError"]
          ELSE [df |-> [isNone |-> FALSE, rows |-> sort_index(parsed.rows)],
                reported |-> "none", raised |-> "none"]

\* shift_df.loc[week_num, group]
Loc(df, week_num, group) ==
  LET r == CHOOSE i \in 1..Len(df.rows) : df.rows[i].week = week_num
  IN df.rows[r].cells[ListIndex(group_list, group) + 1]

\* flatten_shift_data: weeks in ascending order outside, groups inside
RECURSIVE FlattenWeeks(_, _, _)
FlattenWeeks(df, weeks, groups) ==
  IF weeks = <<>> THEN <<>>
  ELSE [g \in 1..Len(groups) |-> Loc(df, weeks[1], groups[g])]
         \o FlattenWeeks(df, Tail(weeks), groups)

\* Faulty variant of flatten_shift_data: groups outside, weeks inside.
RECURSIVE FlattenGroups(_, _, _)
FlattenGroups(df, weeks, groups) ==
  IF groups = <<>> THEN <<>>
  ELSE [w \in 1..Len(weeks) |-> Loc(df, weeks[w], groups[1])]
         \o FlattenGroups(df, weeks, Tail(groups))

flatten_shift_data_ColumnMajor(df) ==
  IF df.isNone THEN <<>>
  ELSE FlattenGroups(df, sorted(FrameIndex(df)), group_list)

\* Faulty variant of flatten_shift_data: the last group is left out.
flatten_shift_data_SkipLastGroup(df) ==
  IF df.isNone THEN <<>>
  ELSE FlattenWeeks(df, sorted(FrameIndex(df)),
                    SubSeq(group_list, 1, Len(group_list) - 1))

flatten_shift_data(df) ==
  IF df.isNone THEN <<>>
  ELSE FlattenWeeks(df, sorted(FrameIndex(df)), group_list)

\* --------------------------------------------------------- the resolver
\* Python's % and // with a positive divisor are the floor modulus and
\* floor division, as are TLA+'s % and \div.
\* Faulty variant of TargetIndex: the remainder takes the sign of the
\* dividend (truncating division).
TargetIndex_Trunc(ref_index, day_difference, total_shifts) ==
  LET a == ref_index + day_difference
  IN IF a >= 0 THEN a % total_shifts ELSE -((-a) % total_shifts)

TargetIndex(ref_index, day_difference, total_shifts) ==
  (ref_index + day_difference) % total_shifts

\* Faulty variant of get_daily_kinmu: the week is taken from the offset
\* before it is reduced modulo the length of the list.
get_daily_kinmu_RawWeek(target_date, ref_date, ref_index, flat_list) ==
  IF flat_list = <<>>
  THEN [status |-> "nodata", kinmu |-> <<"DATA", "NASHI">>,
        week |-> 0, group |-> "-"]
  ELSE LET day_difference == target_date - ref_date
           total_shifts == Len(flat_list)
           target_index == (ref_index + day_difference) % total_shifts
           shift_table_week ==
             ((ref_index + day_difference) \div Len(group_list)) + 1
           current_group_index == target_index % Len(group_list)
       IN [status |-> "ok", kinmu |-> PyGet(flat_list, target_index),
           week |-> shift_table_week,
           group |-> PyGet(group_list, current_group_index)]

\* Faulty variant of get_daily_kinmu: the duty code is read one slot late.
get_daily_kinmu_NextSlot(target_date, ref_date, ref_index, flat_list) ==
  IF flat_list = <<>>
  THEN [status |-> "nodata", kinmu |-> <<"DATA", "NASHI">>,
        week |-> 0, group |-> "-"]
  ELSE LET day_difference == target_date - ref_date
           total_shifts == Len(flat_list)
           target_index == (ref_index + day_difference) % total_shifts
           shift_table_week == (target_index \div Len(group_list)) + 1
           current_group_index == target_index % Len(group_list)
       IN [status |-> "ok",
           kinmu |-> PyGet(flat_list, (target_index + 1) % total_shifts),
           week |-> shift_table_week,
           group |-> PyGet(group_list, current_group_index)]

get_daily_kinmu(target_date, ref_date, ref_index, flat_list) ==
  IF flat_list = <<>>
  THEN [status |-> "nodata", kinmu |-> <<"DATA", "NASHI">>,
        week |-> 0, group |-> "-"]
  ELSE LET day_difference == target_date - ref_date
           total_shifts == Len(flat_list)
           target_index == TargetIndex(ref_index, day_difference, total_shifts)
           shift_table_week == (target_index \div Len(group_list)) + 1
           current_group_index == target_index % Len(group_list)
       IN IF ~IndexValid(flat_list, target_index)
          THEN [status |-> "IndexError", kinmu |-> <<>>,
                week |-> shift_table_week,
                group |-> PyGet(group_list, current_group_index)]
          ELSE [status |-> "ok", kinmu |-> PyGet(flat_list, target_index),
                week |-> shift_table_week,
                group |-> PyGet(group_list, current_group_index)]

\* ------------------------------------------------------ the colour rule
\* str(kinmu): a string is itself, NaN prints as "nan"
Str(kinmu) == IF kinmu = NaN THEN <<"n", "a", "n">> ELSE kinmu

\* "c" in s for a one-character c
Contains(c, s) == \E i \in 1..Len(s) : s[i] = c

\* Faulty variant of Color: the two substring rules in the other order.
Color_AkeFirst(kinmu) ==
  IF Str(kinmu) = <<"KOU">> \/ Str(kinmu) = <<"KYUU">> THEN "red"
  ELSE IF Contains("AKE", Str(kinmu)) THEN "green"
  ELSE IF Contains("HAKU", Str(kinmu)) THEN "blue"
  ELSE "black"

Color(kinmu) ==
  IF Str(kinmu) = <<"KOU">> \/ Str(kinmu) = <<"KYUU">> THEN "red"
  ELSE IF Contains("HAKU", Str(kinmu)) THEN "blue"
  ELSE IF Contains("AKE", Str(kinmu)) THEN "green"
  ELSE "black"

\* --------------------------------------------------------- the calendar
\* date.weekday(): Monday is 0; day 1 (2025-01-01) is a Wednesday
Weekday(d) == (d + 1) % 7

\* calendar.Calendar(firstweekday=0).monthdatescalendar: whole weeks, from
\* the Monday on or before the first day to the Sunday on or after the last
GridFirst(m) == m.first - Weekday(m.first)
GridLast(m) == m.last + (6 - Weekday(m.last))

NoDay == [date |-> 0, status |-> "none", kinmu |-> <<>>, week |-> 0, group |-> "-"]

\* ------------------------------------------------------------- the run
Init ==
  /\ pc = "start"
  /\ file_exists \in BOOLEAN
  /\ csv_data \in CsvInputs
  /\ ref_date_input \in RefDateInputs
  /\ ref_week_input \in RefWeekInputs
  /\ ref_group_input \in {group_list[i] : i \in 1..Len(group_list)}
  /\ target_month \in Months
  /\ shift_df = NoneFrame
  /\ flat_shift_list = <<>>
  /\ ref_shift_index = -1
  /\ error = "none"
  /\ cell_date = 0
  /\ day = NoDay
  /\ color = "none"

\* line 237: shift_df, loaded_filename = load_and_prepare_data(...).  The
\* call is outside the try block: an exception ends the run.
Load ==
  /\ pc = "start"
  /\ LET r == load_and_prepare_data(file_exists, csv_data)
     IN /\ shift_df' = r.df
        /\ error' = IF r.raised # "none" THEN r.raised ELSE r.reported
        /\ pc' = IF r.raised # "none" THEN "crashed" ELSE "loaded"
  /\ UNCHANGED <<file_exists, csv_data, ref_date_input, ref_week_input,
                 ref_group_input, target_month, flat_shift_list,
                 ref_shift_index, cell_date, day, color>>

\* line 279: shift_df is None, nothing is generated
SkipCalendar ==
  /\ pc = "loaded"
  /\ shift_df.isNone
  /\ pc' = "done"
  /\ UNCHANGED <<file_exists, csv_data, ref_date_input, ref_week_input,
                 ref_group_input, target_month, shift_df, flat_shift_list,
                 ref_shift_index, error, cell_date, day, color>>

\* Faulty variant of WeekRowIndex: the week label is taken for the row
\* position (rows assumed to be numbered 1..W).
WeekRowIndex_Label(df, ref_week) ==
  IF ListIndex(FrameIndex(df), ref_week) = -1 THEN -1 ELSE ref_week - 1

\* Faulty variant of WeekRowIndex: a week that is not found is row 0.
WeekRowIndex_Default(df, ref_week) ==
  IF ListIndex(sorted(FrameIndex(df)), ref_week) = -1 THEN 0
  ELSE ListIndex(sorted(FrameIndex(df)), ref_week)

\* sorted(shift_df.index).index(ref_week_input)
WeekRowIndex(df, ref_week) == ListIndex(sorted(FrameIndex(df)), ref_week)

\* lines 290-291
RefShiftIndex(week_row_index, ref_group) ==
  week_row_index * Len(group_list) + ListIndex(group_list, ref_group)

\* lines 282-288: the week is not in the table: st.error and st.stop()
AnchorFail ==
  /\ pc = "loaded"
  /\ ~shift_df.isNone
  /\ WeekRowIndex(shift_df, ref_week_input) = -1
  /\ flat_shift_list' = flatten_shift_data(shift_df)
  /\ error' = "UnknownWeek"
  /\ pc' = "stopped"
  /\ UNCHANGED <<file_exists, csv_data, ref_date_input, ref_week_input,
                 ref_group_input, target_month, shift_df, ref_shift_index,
                 cell_date, day, color>>

\* lines 282-297: the anchor is built and create_calendar_html starts
AnchorBuild ==
  /\ pc = "loaded"
  /\ ~shift_df.isNone
  /\ WeekRowIndex(shift_df, ref_week_input) # -1
  /\ flat_shift_list' = flatten_shift_data(shift_df)
  /\ ref_shift_index' =
       RefShiftIndex(WeekRowIndex(shift_df, ref_week_input), ref_group_input)
  /\ cell_date' = GridFirst(target_month)
  /\ pc' = "render"
  /\ UNCHANGED <<file_exists, csv_data, ref_date_input, ref_week_input,
                 ref_group_input, target_month, shift_df, error, day, color>>

\* lines 88-116: one cell of the grid.  A date outside the month gets its
\* number only; a date of the month is resolved and coloured.  An exception
\* in the resolver is caught at line 304.
RenderCell ==
  /\ pc = "render"
  /\ LET inMonth == target_month.first <= cell_date /\ cell_date <= target_month.last
         r == get_daily_kinmu(cell_date, ref_date_input, ref_shift_index,
                              flat_shift_list)
     IN IF ~inMonth
        THEN /\ UNCHANGED <<day, color, error>>
             /\ pc' = IF cell_date = GridLast(target_month) THEN "done" ELSE "render"
        ELSE /\ day' = [date |-> cell_date, status |-> r.status,
                        kinmu |-> r.kinmu, week |-> r.week, group |-> r.group]
             /\ IF r.status = "IndexError"
                THEN /\ color' = color
                     /\ error' = "IndexError"
                     /\ pc' = "failed"
                ELSE /\ color' = Color(r.kinmu)
                     /\ error' = error
                     /\ pc' = IF cell_date = GridLast(target_month)
                              THEN "done" ELSE "render"
  /\ cell_date' = cell_date + 1
  /\ UNCHANGED <<file_exists, csv_data, ref_date_input, ref_week_input,
                 ref_group_input, target_month, shift_df, flat_shift_list,
                 ref_shift_index>>

Next == Load \/ SkipCalendar \/ AnchorFail \/ AnchorBuild \/ RenderCell

Spec == Init /\ [][Next]_vars

\* =============================================================== claims
\* The table as the input file states it, independently of the frame: the
\* week numbers of the file, the p-th smallest of them, the position of a
\* week among them, and the cell of a week and a group (a field the row
\* lacks is a missing value).
CsvWeeks == {csv_data[i].week : i \in 1..Len(csv_data)}
WeekAtPosition(p) ==
  CHOOSE w \in CsvWeeks : Cardinality({v \in CsvWeeks : v < w}) = p - 1
PositionOfWeek(w) == Cardinality({v \in CsvWeeks : v <= w})
GroupPosition(g) == CHOOSE k \in 1..Len(group_list) : group_list[k] = g
TableCell(w, g) ==
  LET row == csv_data[CHOOSE i \in 1..Len(csv_data) : csv_data[i].week = w]
  IN IF GroupPosition(g) <= Len(row.cells)
     THEN row.cells[GroupPosition(g)] ELSE NaN

W == Len(csv_data)
N == Len(flat_shift_list)
G == Len(group_list)
Resolved == day.status # "none"
Resolve(d) ==
  get_daily_kinmu(d, ref_date_input, ref_shift_index, flat_shift_list)
SameTriple(r, q) ==
  r.status = q.status /\ r.kinmu = q.kinmu /\ r.week = q.week /\ r.group = q.group
NextGroup(g) == group_list[(GroupPosition(g) % G) + 1]
Chars(s) == {s[i] : i \in 1..Len(s)}

\* C1 (periodicity): the triple resolved for a day of the month is the triple
\* get_daily_kinmu returns for the date N days later and for the date N days
\* earlier, N being the length of the flat list.
C1_Periodicity ==
  Resolved =>
    /\ SameTriple(Resolve(day.date + N), day)
    /\ SameTriple(Resolve(day.date - N), day)

\* A day before the reference date has been resolved on a list of two weeks.
C1_Witness ==
  Resolved /\ day.status = "ok" /\ day.date < ref_date_input /\ N = 2 * G

\* C2 (anchor self-consistency): resolving the reference date gives the table
\* cell at the configured week and group, the 1-based sorted position of that
\* week, and the configured group.
C2_AnchorSelfConsistent ==
  (Resolved /\ day.date = ref_date_input) =>
    /\ day.status = "ok"
    /\ day.kinmu = TableCell(ref_week_input, ref_group_input)
    /\ day.week = PositionOfWeek(ref_week_input)
    /\ day.group = ref_group_input

\* The reference date has been resolved with an anchor week whose label is
\* not its position.
C2_Witness ==
  /\ Resolved /\ day.date = ref_date_input
  /\ PositionOfWeek(ref_week_input) # ref_week_input
  /\ ref_group_input = "HA"

\* C3 (totality and index range): once the anchor is built, every date, before
\* or after the reference date and however far, is resolved without an
\* exception from a target index in [0, N); the run never ends in the
\* exception handler.
C3_TotalInRange ==
  /\ pc # "failed"
  /\ Resolved =>
       /\ day.status = "ok"
       /\ TargetIndex(ref_shift_index, day.date - ref_date_input, N) \in 0..(N - 1)
  /\ pc = "render" =>
       \A d \in {-1000000, -N - 1, -N, -1, 0, N, N + 1, 1000000} :
          /\ Resolve(ref_date_input + d).status = "ok"
          /\ TargetIndex(ref_shift_index, d, N) \in 0..(N - 1)

\* A day more than a whole period before the reference date has been resolved.
C3_Witness ==
  Resolved /\ day.status = "ok" /\ day.date - ref_date_input < -N

\* C4 (group cycling): the group of the day after a resolved day is the
\* successor of its group in the fixed order, TO followed by I, and the group
\* seven days later is the same group.
C4_GroupCycles ==
  Resolved =>
    /\ Resolve(day.date + 1).group = NextGroup(day.group)
    /\ Resolve(day.date + G).group = day.group

\* The resolved day sits on the last slot of the flat list: the next day wraps
\* to slot 0.
C4_Witness ==
  /\ Resolved /\ day.status = "ok"
  /\ TargetIndex(ref_shift_index, day.date - ref_date_input, N) = N - 1
  /\ day.group = "TO"

\* C5 (empty table rejected): when the file has no rows or no table was
\* loaded, the run reports an error, builds no anchor and resolves no date;
\* the resolver is never evaluated with an empty flat list.
C5_EmptyRejected ==
  /\ ((~file_exists \/ csv_data = <<>>) /\ pc # "start") =>
       /\ error # "none"
       /\ shift_df.isNone
       /\ ref_shift_index = -1
       /\ ~Resolved
       /\ pc \in {"crashed", "loaded", "done"}
  /\ pc = "render" => flat_shift_list # <<>>
  /\ day.status # "nodata"

\* A file without rows has been read and the run has ended with the error.
C5_Witness ==
  file_exists /\ csv_data = <<>> /\ pc = "crashed" /\ error = "EmptyDataError"

\* C6 (unknown anchor week): with a table loaded and a configured week that
\* is not a week of the table, the run stops with the error, no reference
\* index is computed and no date is resolved; every reference index that is
\* computed lies in [0, W*G).
C6_UnknownWeekRejected ==
  /\ (~shift_df.isNone /\ ref_week_input \notin CsvWeeks /\ pc # "loaded") =>
       /\ pc = "stopped"
       /\ error = "UnknownWeek"
       /\ ref_shift_index = -1
       /\ ~Resolved
  /\ ref_shift_index # -1 =>
       /\ ref_week_input \in CsvWeeks
       /\ ref_shift_index \in 0..(W * G - 1)

\* The run has stopped on week 2, which a two-week table does not hold.
C6_Witness ==
  pc = "stopped" /\ W = 2 /\ ref_week_input = 2 /\ error = "UnknownWeek"

\* C7 (classification): the colour of a resolved day is red exactly for the
\* codes 公 and 休, blue exactly for the other codes containing 泊, green
\* exactly for the remaining codes containing 明 and black for the rest; a
\* code containing both 泊 and 明 is blue.
C7_Classification ==
  (Resolved /\ day.status = "ok") =>
    LET s == Str(day.kinmu)
        dayOff == s \in {<<"KOU">>, <<"KYUU">>}
    IN /\ color \in {"red", "blue", "green", "black"}
       /\ (color = "red") <=> dayOff
       /\ (color = "blue") <=> (~dayOff /\ "HAKU" \in Chars(s))
       /\ (color = "green") <=>
            (~dayOff /\ "HAKU" \notin Chars(s) /\ "AKE" \in Chars(s))
       /\ (color = "black") <=>
            (~dayOff /\ "HAKU" \notin Chars(s) /\ "AKE" \notin Chars(s))

\* A code with 明 before 泊 has been coloured blue.
C7_Witness ==
  Resolved /\ day.kinmu = <<"AKE", "HAKU">> /\ color = "blue"

\* C8 (malformed table rejected), as claimed: once the file has been read, a
\* row whose number of duty-code fields is not 7 means that no table was
\* produced and an error was reported.
C8_MalformedRejected ==
  (/\ pc # "start"
   /\ file_exists
   /\ \E i \in 1..Len(csv_data) : Len(csv_data[i].cells) # G)
  => (shift_df.isNone /\ error # "none" /\ flat_shift_list = <<>>)

\* C9 (row-major flattening): the flat list of a loaded table has length W*7
\* and its element i is the cell of the (i div 7)-th smallest week and the
\* (i mod 7)-th group, whatever the order of the rows in the file.
C9_RowMajor ==
  pc \in {"render", "stopped", "failed"} \/ (pc = "done" /\ ~shift_df.isNone) =>
    /\ Len(flat_shift_list) = W * 7
    /\ \A i \in 0..(W * 7 - 1) :
         flat_shift_list[i + 1] =
           TableCell(WeekAtPosition((i \div 7) + 1), group_list[(i % 7) + 1])

\* A table has been flattened whose rows came in descending week order.
C9_Witness ==
  /\ pc = "render" /\ W = 2
  /\ csv_data[1].week > csv_data[2].week
  /\ csv_data[1].cells # csv_data[2].cells

\* C10 (consistent triple): a resolved day carries a week p in 1..W and a
\* group g of the fixed list, and its duty code is the table cell of the p-th
\* smallest week number and g.
C10_TripleConsistent ==
  Resolved =>
    /\ day.status = "ok"
    /\ day.week \in 1..W
    /\ day.group \in {group_list[k] : k \in 1..G}
    /\ day.kinmu = TableCell(WeekAtPosition(day.week), day.group)

\* A day has been resolved to a position that is not the label of its row.
C10_Witness ==
  Resolved /\ day.status = "ok" /\ WeekAtPosition(day.week) # day.week

====
